---- MODULE Spec2Model ----
(***************************************************************************)
(* State-machine model of packages/core/next/models/Field.ts: the Field    *)
(* node of the form core, together with the parts of its collaborators     *)
(* (Form value trees and registry, Feedback store, path model, validation  *)
(* engine) that Field.ts calls.                                            *)
(***************************************************************************)
EXTENDS Integers, Sequences, FiniteSets, TLC

\* Bounds of the model.
MaxInFlight == 2   \* validate() calls awaiting the engine at the same time
MaxResults == 1    \* length of a result list returned by the engine
MaxMixed == 2      \* the same, where the order of the results matters

VARIABLES
  fields,         \* path -> the Field object's own attributes
  registry,       \* form.fields: the set of path strings that have an entry
  values,         \* form.values, as path -> cell
  initialValues,  \* form.initialValues, as path -> cell
  formModified,   \* form.modified
  feedback,       \* form.feedback: ordered list of entries
  inflight,       \* validate() calls suspended at their await, in start order
  events,         \* form.notify calls made by the last step, in order
  returned,       \* what the validate() call that completed last returned
  hiddenAt,       \* path -> value at the last setDisplay('none'), while no later call on the field
  hung,           \* TRUE once a call has entered a loop that never exits
  lookup          \* the getter or lookup method called last, and what it returned

vars == <<fields, registry, values, initialValues, formModified, feedback,
          inflight, events, returned, hiddenAt, hung, lookup>>

-----------------------------------------------------------------------------
(* Paths: sequences of segments.  toString() is injective on them, so the    *)
(* registry is keyed by the path itself.                                     *)

UserPath == <<"user">>
NamePath == <<"user", "name">>
AllPaths == {UserPath, NamePath}

IsPrefix(p, q) == Len(p) <= Len(q) /\ SubSeq(q, 1, Len(p)) = p
IsProperPrefix(p, q) == Len(p) < Len(q) /\ SubSeq(q, 1, Len(p)) = p
Rel(p, q) == SubSeq(q, Len(p) + 1, Len(q))

\* FormPath.parent(): the path without its last segment; the empty path is
\* its own parent.
PathParent(p) == IF Len(p) = 0 THEN p ELSE SubSeq(p, 1, Len(p) - 1)

-----------------------------------------------------------------------------
(* JavaScript values.  A scalar s is the function (<<>> :> s); an object is  *)
(* the function from the relative paths of its leaves to their scalars.      *)

Undef == "undefined"
Null == "null"
Scalars == {Undef, Null, "Al", "Bob"}
Sc(s) == [r \in {<<>>} |-> s]
UndefV == Sc(Undef)
NullV == Sc(Null)

\* isValid of @formily/shared: neither undefined nor null.
isValid(v) == v # UndefV /\ v # NullV

(* A value tree is path -> cell: Absent (no such key), Obj or Arr (an object *)
(* or an array whose keys are the deeper paths) or a scalar.                 *)
Absent == "#absent"
Obj == "#object"
Arr == "#array"
Containers == {Obj, Arr}
\* The keys a tree of the form can hold: the fields' paths, and the 'name'
\* key of an object stored at user.name.
NameKeyPath == <<"user", "name", "name">>
TreePaths == AllPaths \cup {NameKeyPath}
EmptyTree == [q \in TreePaths |-> Absent]

\* FormPath.existIn(tree, path)
ExistIn(tree, p) == tree[p] # Absent

\* form.getValuesIn / form.getInitialValuesIn
GetIn(tree, p) ==
  IF tree[p] = Absent THEN UndefV
  ELSE IF tree[p] \in Containers
       THEN [r \in {Rel(p, q) : q \in {x \in DOMAIN tree :
                       IsProperPrefix(p, x) /\ tree[x] \notin {Absent} \cup Containers}}
               |-> tree[p \o r]]
       ELSE Sc(tree[p])

\* form.setValuesIn / form.setInitialValuesIn: writes v at p, creating the
\* objects above p and replacing whatever was below p.
SetIn(tree, p, v) ==
  [q \in DOMAIN tree |->
     IF q = p THEN (IF <<>> \in DOMAIN v THEN v[<<>>] ELSE Obj)
     ELSE IF IsProperPrefix(q, p) THEN Obj
     ELSE IF IsProperPrefix(p, q)
          THEN (IF Rel(p, q) \in DOMAIN v THEN v[Rel(p, q)]
                ELSE IF \E r \in DOMAIN v : IsProperPrefix(Rel(p, q), r) THEN Obj
                ELSE Absent)
     ELSE tree[q]]

\* Removal of a path from the value tree (by the form or any other holder
\* of it): the key and everything below it go.
DeleteIn(tree, p) ==
  [q \in DOMAIN tree |-> IF IsPrefix(p, q) THEN Absent ELSE tree[q]]

-----------------------------------------------------------------------------
(* Validator descriptions.  A description is none (no validator given), an   *)
(* object (one rule description) or an array of rule descriptions.  Of a     *)
(* rule description the model keeps the 'required' key: has says whether the *)
(* key is present, required its truthiness.  Other keys (format, custom      *)
(* validator functions, ...) are not interpreted by Field.ts.                *)

Desc(has, required) == [has |-> has, required |-> required]
NoKey == Desc(FALSE, FALSE)
NoValidator == [shape |-> "none", descs |-> <<>>]
ObjValidator(d) == [shape |-> "obj", descs |-> <<d>>]
ArrValidator(ds) == [shape |-> "arr", descs |-> ds]

\* isObj / isArr of @formily/shared, as the description shapes.
isObj(v) == v.shape = "obj"
isArr(v) == v.shape = "arr"

\* parseDescriptions of @formily/validator: the list of rule descriptions.
parseDescriptions(v) == v.descs

\* get required()
Required(v) ==
  \E i \in DOMAIN parseDescriptions(v) : parseDescriptions(v)[i].required

\* setRequired(required): the validator afterwards.
ValidatorAfterSetRequired(v, required) ==
  LET hasRequired ==
        \E i \in DOMAIN parseDescriptions(v) : parseDescriptions(v)[i].has
  IN IF hasRequired
     THEN IF isObj(v)
          THEN [v EXCEPT !.descs = <<Desc(TRUE, required)>>]
          ELSE IF isArr(v)
               THEN [v EXCEPT !.descs =
                       [i \in DOMAIN v.descs |->
                          IF v.descs[i].has THEN Desc(TRUE, required)
                          ELSE v.descs[i]]]
               ELSE v
     ELSE IF isObj(v)
          THEN [v EXCEPT !.descs = <<Desc(TRUE, required)>>]
          ELSE IF isArr(v)
               THEN [v EXCEPT !.descs = Append(v.descs, Desc(TRUE, TRUE))]
               ELSE v

-----------------------------------------------------------------------------
(* The validation engine (validate of @formily/validator): it answers a call *)
(* later with a list of {type, message} results, or rejects.  With no rule   *)
(* description there is nothing to run and the list is empty.                *)

Result(type, message) == [type |-> type, message |-> message]
Results == {Result("error", "e1"), Result("error", "e2"),
            Result("warning", "w1"), Result("success", "s1")}

RECURSIVE SeqsUpTo(_, _)
SeqsUpTo(S, n) ==
  IF n = 0 THEN {<<>>}
  ELSE LET shorter == SeqsUpTo(S, n - 1)
       IN shorter \cup {Append(s, x) : s \in {t \in shorter : Len(t) = n - 1}, x \in S}

EngineAnswers(task) ==
  IF task.rules THEN Seq(Results) ELSE {<<>>}

-----------------------------------------------------------------------------
(* Feedback store: an ordered list of entries {type, code, path, messages}.  *)

Entry(type, code, p, messages) ==
  [type |-> type, code |-> code, path |-> p, messages |-> messages]

RECURSIVE Flatten(_)
Flatten(ss) == IF ss = <<>> THEN <<>> ELSE Head(ss) \o Flatten(Tail(ss))

\* feedback.update: upsert of the entry keyed by (path, code); an empty
\* message list leaves no entry.
FeedbackUpdate(fb, e) ==
  LET same(x) == x.path = e.path /\ x.code = e.code
      others == SelectSeq(fb, LAMBDA x : ~same(x))
  IN IF e.messages = <<>> THEN others
     ELSE IF \E i \in DOMAIN fb : same(fb[i])
          THEN [i \in DOMAIN fb |-> IF same(fb[i]) THEN e ELSE fb[i]]
          ELSE Append(fb, e)

\* feedback.find({path, type}): the messages of the entries of that type at
\* or under the path, in store order.
FeedbackFind(fb, p, type) ==
  LET hit == SelectSeq(fb, LAMBDA x : x.type = type /\ IsPrefix(p, x.path))
  IN Flatten([i \in DOMAIN hit |-> hit[i].messages])

\* feedback.clear({path}): drops the entries at or under the path.
FeedbackClear(fb, p) == SelectSeq(fb, LAMBDA x : ~IsPrefix(p, x.path))

\* The messages stored under (path, code); empty when there is no entry.
FeedbackAt(fb, p, code) ==
  LET hit == SelectSeq(fb, LAMBDA x : x.path = p /\ x.code = code)
  IN Flatten([i \in DOMAIN hit |-> hit[i].messages])

-----------------------------------------------------------------------------
(* Field getters.                                                            *)

\* get initialValue()
InitialValueOf(ivals, p) == GetIn(ivals, p)

\* Variant of the value getter without the fallback to initialValue.
ValueAlwaysRaw(modified, vals, ivals, p) == GetIn(vals, p)

\* get value(), for a given modified flag and given trees.
ValueGetter(modified, vals, ivals, p) ==
  LET value == GetIn(vals, p)
  IN IF modified THEN value
     ELSE IF isValid(value) THEN value ELSE InitialValueOf(ivals, p)

FieldValue(p) == ValueGetter(fields[p].modified, values, initialValues, p)
FieldInitialValue(p) == InitialValueOf(initialValues, p)

\* get parent(): walks outward from q until a registered path is found.  The
\* empty path is its own parent, so a walk that reaches it unregistered
\* stays there: the loop does not exit.
RECURSIVE ParentWalk(_, _)
ParentWalk(reg, q) ==
  IF q \in reg THEN q
  ELSE IF Len(q) = 0 THEN q
  ELSE ParentWalk(reg, PathParent(q))

ParentOf(reg, p) == ParentWalk(reg, PathParent(p))
ParentLoops(reg, p) == ParentOf(reg, p) \notin reg

\* get computedDisplay(): own display if set, else the parent's display.
\* Only meaningful where the parent walk ends.
ComputedDisplay(flds, reg, p) ==
  IF flds[p].display # Undef THEN flds[p].display
  ELSE flds[ParentOf(reg, p)].display

ComputedDisplayLoops(flds, reg, p) ==
  flds[p].display = Undef /\ ParentLoops(reg, p)

\* get errors() / warnings() / successes()
FieldErrors(p) == FeedbackFind(feedback, p, "error")
FieldWarnings(p) == FeedbackFind(feedback, p, "warning")
FieldSuccesses(p) == FeedbackFind(feedback, p, "success")

(* Array addressing.  A numeric path segment is written by its digits; the   *)
(* model keeps the one-digit numbers, and every other number has a segment   *)
(* that no path of the model contains.                                       *)

Digits == <<"0", "1", "2", "3", "4", "5", "6", "7", "8", "9">>
OtherSeg == "#number"
NoIndex == -1

\* isNum of @formily/shared, on a path segment.
isNum(seg) == \E n \in DOMAIN Digits : Digits[n] = seg
NumOfSeg(seg) == (CHOOSE n \in DOMAIN Digits : Digits[n] = seg) - 1
SegOfNum(n) == IF (n + 1) \in DOMAIN Digits THEN Digits[n + 1] ELSE OtherSeg

\* isArr(field.value): whether the value getter returns an array.
ValueIsArr(modified, vals, ivals, p) ==
  IF modified \/ isValid(GetIn(vals, p)) THEN vals[p] = Arr ELSE ivals[p] = Arr

\* A lookup that finds no field returns undefined.
NoField == <<>>

\* get array(): walks outward from q until a registered field whose value is
\* an array is found; gives up once the walk has reached the empty path.
RECURSIVE ArrayWalk(_, _, _, _, _)
ArrayWalk(flds, reg, vals, ivals, q) ==
  IF q \in reg /\ ValueIsArr(flds[q].modified, vals, ivals, q) THEN q
  ELSE IF Len(PathParent(q)) = 0 THEN NoField
  ELSE ArrayWalk(flds, reg, vals, ivals, PathParent(q))

ArrayOf(flds, reg, vals, ivals, p) ==
  ArrayWalk(flds, reg, vals, ivals, PathParent(p))

\* get index(): the last numeric segment of the path.
IndexOf(p) ==
  LET nums == {i \in DOMAIN p : isNum(p[i])}
  IN IF nums = {} THEN NoIndex
     ELSE NumOfSeg(p[CHOOSE i \in nums : \A j \in nums : j <= i])

\* getArraySibling(index, key): key is a path, empty when no key is given.
ArraySibling(flds, reg, vals, ivals, p, index, key) ==
  LET array == ArrayOf(flds, reg, vals, ivals, p)
      sibling == array \o <<SegOfNum(index)>> \o key
  IN IF array # NoField /\ sibling \in reg THEN sibling ELSE NoField

\* index + step and index - step; undefined stays no number.
IndexShift(index, by) == IF index = NoIndex THEN NoIndex ELSE index + by

Lookup(op, p, key, step, field, index, display) ==
  [op |-> op, path |-> p, key |-> key, step |-> step, field |-> field,
   index |-> index, display |-> display]
NoLookup == Lookup("none", <<>>, <<>>, 0, NoField, NoIndex, Undef)

-----------------------------------------------------------------------------
(* Sub-calls shared by the handlers.                                         *)

\* form.notify(type, payload): the payload is a field, named by its path, or
\* the form, named by the empty path.
Notify(type, p) == [type |-> type, path |-> p]
FormPayload == <<>>

NoReturn == [path |-> <<>>, overlapped |-> FALSE, errors |-> <<>>, warnings |-> <<>>, successes |-> <<>>]

\* What is remembered of a setDisplay('none'): the value the getter returned
\* when it was called, and the two trees as the call left them.
NoSnap == [set |-> FALSE, v |-> UndefV, values |-> EmptyTree, initialValues |-> EmptyTree]
Snap(v, vals, ivals) == [set |-> TRUE, v |-> v, values |-> vals, initialValues |-> ivals]

\* Variant of setValue without the void guard.
SetValueIgnoringVoid(f, vals, p, v) == SetIn(vals, p, v)

\* setValue(v) as called on field record f at path p: the values tree and
\* the notifications it leaves.
ValuesAfterSetValue(f, vals, p, v) ==
  IF f.void THEN vals ELSE SetIn(vals, p, v)

SetValueEvents(f, p) ==
  IF f.void THEN <<>>
  ELSE <<Notify("ON_FIELD_VALUE_CHANGE", p),
         Notify("ON_FORM_VALUES_CHANGE", FormPayload)>>

\* setInitialValue(v), likewise on the initialValues tree.
InitialValuesAfterSet(f, ivals, p, v) ==
  IF f.void THEN ivals ELSE SetIn(ivals, p, v)

SetInitialValueEvents(f, p) ==
  IF f.void THEN <<>>
  ELSE <<Notify("ON_FIELD_INITIAL_VALUE_CHANGE", p),
         Notify("ON_FORM_INITIAL_VALUES_CHANGE", FormPayload)>>

\* The synchronous head of validate(): validating is set, validate-start is
\* notified and the engine is called; the call then waits for its answer.
\* A waiting call notes whether another call on the same field was waiting
\* at any moment of its own wait.
Task(f, p, overlapped) ==
  [path |-> p, rules |-> Len(parseDescriptions(f.validator)) > 0,
   overlapped |-> overlapped]

StartValidate(waiting, f, p) ==
  Append([i \in DOMAIN waiting |->
            IF waiting[i].path = p THEN [waiting[i] EXCEPT !.overlapped = TRUE]
            ELSE waiting[i]],
         Task(f, p, \E i \in DOMAIN waiting : waiting[i].path = p))
ValidateStartEvents(p) == <<Notify("ON_FIELD_VALIDATE_START", p)>>
CanStartValidate == Len(inflight) < MaxInFlight

\* A call is made on a Field object, registered or not; once a call has
\* entered a loop that never exits, no later call is made.
Callable(p) == ~hung

-----------------------------------------------------------------------------
(* Handlers.                                                                 *)

\* setValue(value)
SetValue(p, v) ==
  /\ Callable(p)
  /\ values' = ValuesAfterSetValue(fields[p], values, p, Sc(v))
  /\ events' = SetValueEvents(fields[p], p)
  /\ hiddenAt' = [hiddenAt EXCEPT ![p] = NoSnap]
  /\ UNCHANGED <<lookup, returned, fields, registry, initialValues, formModified, feedback,
                 inflight, hung>>

\* setInitialValue(initialValue), for any value: a scalar or an object.
SetInitialValueTo(p, initialValue) ==
  /\ Callable(p)
  /\ initialValues' = InitialValuesAfterSet(fields[p], initialValues, p, initialValue)
  /\ events' = SetInitialValueEvents(fields[p], p)
  /\ hiddenAt' = [hiddenAt EXCEPT ![p] = NoSnap]
  /\ UNCHANGED <<lookup, returned, fields, registry, values, formModified, feedback,
                 inflight, hung>>

\* setDisplay(type)
DisplayTypes == {"none", "hidden", "visibility"}

\* Variant of setDisplay that stashes nothing on 'none'.
RecycledNeverStashed(f, type, value) ==
  IF type = "visibility" /\ f.display = "none" THEN NullV ELSE f.recycledValue

\* recycledValue after setDisplay(type) on field record f whose value getter
\* returns value.
RecycledAfterSetDisplay(f, type, value) ==
  IF type = "visibility"
  THEN (IF f.display = "none" THEN NullV ELSE f.recycledValue)
  ELSE IF type = "none" THEN value
  ELSE f.recycledValue

SetDisplay(p, type) ==
  LET f == fields[p]
      restore == type = "visibility" /\ f.display = "none"
      hide == type = "none"
  IN /\ Callable(p)
     /\ values' =
          IF restore THEN ValuesAfterSetValue(f, values, p, f.recycledValue)
          ELSE IF hide THEN ValuesAfterSetValue(f, values, p, UndefV)
          ELSE values
     /\ fields' = [fields EXCEPT
          ![p].recycledValue = RecycledAfterSetDisplay(f, type, FieldValue(p)),
          ![p].display = type]
     /\ events' = IF restore \/ hide THEN SetValueEvents(f, p) ELSE <<>>
     /\ hiddenAt' = [hiddenAt EXCEPT ![p] =
          IF hide /\ f.display # "none"
          THEN Snap(FieldValue(p), values', initialValues) ELSE NoSnap]
     /\ UNCHANGED <<lookup, returned, registry, initialValues, formModified, feedback,
                    inflight, hung>>

\* setInitialValue(initialValue) with a scalar.
SetInitialValue(p, v) == SetInitialValueTo(p, Sc(v))

\* onInput(...args)
InputArgs == {<<>>, <<"Bob">>}

OnInput(p, args) ==
  LET f == fields[p]
      arg == IF args = <<>> THEN Undef ELSE args[1]
  IN /\ Callable(p)
     /\ IF f.void
        THEN /\ events' = <<>>
             /\ UNCHANGED <<fields, values, formModified, inflight>>
        ELSE /\ CanStartValidate
             /\ fields' = [fields EXCEPT
                  ![p].inputValue = arg,
                  ![p].inputValues = args,
                  ![p].modified = TRUE,
                  ![p].validating = TRUE]
             /\ formModified' = TRUE
             /\ values' = SetIn(values, p,
                                ValueGetter(TRUE, values, initialValues, p))
             /\ events' = <<Notify("ON_FIELD_VALUE_CHANGE", p),
                            Notify("ON_FIELD_INPUT_CHANGE", p),
                            Notify("ON_FORM_VALUES_CHANGE", FormPayload),
                            Notify("ON_FORM_INPUT_CHANGE", FormPayload)>>
                          \o ValidateStartEvents(p)
             /\ inflight' = StartValidate(inflight, f, p)
     /\ hiddenAt' = [hiddenAt EXCEPT ![p] = NoSnap]
     /\ UNCHANGED <<lookup, returned, registry, initialValues, feedback, hung>>

\* onInit()
OnInit(p) ==
  /\ Callable(p)
  /\ CanStartValidate
  /\ fields' = [fields EXCEPT ![p].initialized = TRUE, ![p].validating = TRUE]
  /\ events' = <<Notify("ON_FIELD_INIT", p)>> \o ValidateStartEvents(p)
  /\ inflight' = StartValidate(inflight, fields[p], p)
  /\ hiddenAt' = [hiddenAt EXCEPT ![p] = NoSnap]
  /\ UNCHANGED <<lookup, returned, registry, values, initialValues, formModified, feedback, hung>>

\* onMount()
OnMount(p) ==
  /\ Callable(p)
  /\ CanStartValidate
  /\ fields' = [fields EXCEPT ![p].mounted = TRUE, ![p].unmounted = FALSE,
                              ![p].validating = TRUE]
  /\ events' = ValidateStartEvents(p) \o <<Notify("ON_FIELD_MOUNT", p)>>
  /\ inflight' = StartValidate(inflight, fields[p], p)
  /\ hiddenAt' = [hiddenAt EXCEPT ![p] = NoSnap]
  /\ UNCHANGED <<lookup, returned, registry, values, initialValues, formModified, feedback, hung>>

\* onFocus()
OnFocus(p) ==
  /\ Callable(p)
  /\ CanStartValidate
  /\ fields' = [fields EXCEPT ![p].active = TRUE, ![p].visited = TRUE,
                              ![p].validating = TRUE]
  /\ events' = ValidateStartEvents(p)
  /\ inflight' = StartValidate(inflight, fields[p], p)
  /\ hiddenAt' = [hiddenAt EXCEPT ![p] = NoSnap]
  /\ UNCHANGED <<lookup, returned, registry, values, initialValues, formModified, feedback, hung>>

\* onBlur()
OnBlur(p) ==
  /\ Callable(p)
  /\ CanStartValidate
  /\ fields' = [fields EXCEPT ![p].active = FALSE, ![p].validating = TRUE]
  /\ events' = ValidateStartEvents(p)
  /\ inflight' = StartValidate(inflight, fields[p], p)
  /\ hiddenAt' = [hiddenAt EXCEPT ![p] = NoSnap]
  /\ UNCHANGED <<lookup, returned, registry, values, initialValues, formModified, feedback, hung>>

\* onUnmount()
\* Variant of the onUnmount test that leaves out 'none'.
ClearsOnlyVisibility(display) == display = "visibility"

ClearsOnUnmount(display) == display = "none" \/ display = "visibility"

OnUnmount(p) ==
  LET f == fields[p]
      exists == ExistIn(values, p)
      loops == exists /\ ComputedDisplayLoops(fields, registry, p)
      clears == exists /\ ~loops
                /\ ClearsOnUnmount(ComputedDisplay(fields, registry, p))
  IN /\ Callable(p)
     /\ CanStartValidate
     /\ fields' = [fields EXCEPT ![p].mounted = FALSE, ![p].unmounted = TRUE,
                                 ![p].validating = TRUE]
     /\ inflight' = StartValidate(inflight, f, p)
     /\ hung' = loops
     /\ values' = IF clears THEN ValuesAfterSetValue(f, values, p, UndefV)
                  ELSE values
     /\ registry' = IF exists THEN registry ELSE registry \ {p}
     /\ events' = ValidateStartEvents(p) \o <<Notify("ON_FIELD_UNMOUNT", p)>>
                  \o (IF clears THEN SetValueEvents(f, p) ELSE <<>>)
     /\ hiddenAt' = [hiddenAt EXCEPT ![p] = NoSnap]
     /\ UNCHANGED <<lookup, returned, initialValues, formModified, feedback>>

\* reset(options): the atomic block, and the head of validate() when asked.
ResetOptions == SUBSET {"forceClear", "validate", "clearInitialValue"}

\* Variant of reset that reads initialValue before clearInitialValue acts.
ResetTargetStale(force, old, new, p) ==
  IF force THEN UndefV ELSE InitialValueOf(old, p)

\* The argument of reset's setValue call; old and new are the initialValues
\* tree before and after the clearInitialValue step.
ResetTarget(force, old, new, p) ==
  IF force THEN UndefV ELSE InitialValueOf(new, p)

Reset(p, opts) ==
  LET f == fields[p]
      clearInitial == "clearInitialValue" \in opts
      force == "forceClear" \in opts
      ivals == IF clearInitial
               THEN InitialValuesAfterSet(f, initialValues, p, UndefV)
               ELSE initialValues
      startsValidate == "validate" \in opts
  IN /\ Callable(p)
     /\ startsValidate => CanStartValidate
     /\ initialValues' = ivals
     /\ values' = ValuesAfterSetValue(f, values, p,
                                      ResetTarget(force, initialValues, ivals, p))
     /\ fields' = [fields EXCEPT
          ![p].modified = FALSE,
          ![p].visited = FALSE,
          ![p].inputValue = IF force THEN Undef ELSE f.inputValue,
          ![p].inputValues = IF force THEN <<>> ELSE f.inputValues,
          ![p].validating = IF startsValidate THEN TRUE ELSE f.validating]
     /\ feedback' = FeedbackClear(feedback, p)
     /\ inflight' = IF startsValidate THEN StartValidate(inflight, f, p)
                    ELSE inflight
     /\ events' = (IF clearInitial THEN SetInitialValueEvents(f, p) ELSE <<>>)
                  \o SetValueEvents(f, p) \o <<Notify("ON_FIELD_RESET", p)>>
                  \o (IF startsValidate THEN ValidateStartEvents(p) ELSE <<>>)
     /\ hiddenAt' = [hiddenAt EXCEPT ![p] = NoSnap]
     /\ UNCHANGED <<lookup, returned, registry, formModified, hung>>

-----------------------------------------------------------------------------
(* validate(): head, and the continuation after the engine's answer.         *)

MessagesOf(results, types) ==
  LET hit == SelectSeq(results, LAMBDA r : r.type \in types)
  IN [i \in DOMAIN hit |-> hit[i].message]

\* Variant of the partition that keeps the successes apart.
PartitionWithSuccesses(results) ==
  [errors |-> MessagesOf(results, {"error"}),
   warnings |-> MessagesOf(results, {"warning"}),
   successes |-> MessagesOf(results, {"success"})]

\* The partition of the results into the three returned lists.
Partition(results) ==
  [errors |-> MessagesOf(results, {"error"}),
   warnings |-> MessagesOf(results, {"warning", "success"}),
   successes |-> <<>>]

\* Variant of the feedback writes that files the errors as warnings.
FeedbackAfterValidateErrorsAsWarnings(fb, p, parts) ==
  IF parts.errors # <<>>
  THEN FeedbackUpdate(fb, Entry("warning", "ValidateWarning", p, parts.errors))
  ELSE fb

\* The feedback writes of the continuation: one update per non-empty list.
FeedbackAfterValidate(fb, p, parts) ==
  LET fb1 == IF parts.errors # <<>>
             THEN FeedbackUpdate(fb, Entry("error", "ValidateError", p, parts.errors))
             ELSE fb
      fb2 == IF parts.warnings # <<>>
             THEN FeedbackUpdate(fb1, Entry("warning", "ValidateWarning", p, parts.warnings))
             ELSE fb1
  IN IF parts.successes # <<>>
     THEN FeedbackUpdate(fb2, Entry("success", "ValidateSuccess", p, parts.successes))
     ELSE fb2

RemoveAt(s, i) == SubSeq(s, 1, i - 1) \o SubSeq(s, i + 1, Len(s))

\* validate(triggerType) called on its own (by the form, a view or an effect).
Validate(p) ==
  /\ Callable(p)
  /\ CanStartValidate
  /\ fields' = [fields EXCEPT ![p].validating = TRUE]
  /\ events' = ValidateStartEvents(p)
  /\ inflight' = StartValidate(inflight, fields[p], p)
  /\ hiddenAt' = [hiddenAt EXCEPT ![p] = NoSnap]
  /\ UNCHANGED <<lookup, returned, registry, values, initialValues, formModified, feedback, hung>>

\* The engine answers the i-th waiting call with results; the call runs to
\* its return.
ValidateSettle(i, results) ==
  LET p == inflight[i].path
      parts == Partition(results)
  IN /\ ~hung
     /\ i \in DOMAIN inflight
     /\ results \in EngineAnswers(inflight[i])
     /\ feedback' = FeedbackAfterValidate(feedback, p, parts)
     /\ fields' = [fields EXCEPT ![p].validating = FALSE]
     /\ events' = <<Notify("ON_FIELD_VALIDATE_END", p)>>
     /\ inflight' = RemoveAt(inflight, i)
     /\ returned' = [path |-> p, overlapped |-> inflight[i].overlapped,
                      errors |-> parts.errors,
                      warnings |-> parts.warnings,
                      successes |-> parts.successes]
     /\ UNCHANGED <<lookup, registry, values, initialValues, formModified, hiddenAt, hung>>

\* The engine rejects the i-th waiting call: the await throws and the rest
\* of validate() is skipped.
ValidateReject(i) ==
  /\ ~hung
  /\ i \in DOMAIN inflight
  /\ inflight[i].rules
  /\ inflight' = RemoveAt(inflight, i)
  /\ events' = <<>>
  /\ UNCHANGED <<lookup, returned, fields, registry, values, initialValues, formModified,
                 feedback, hiddenAt, hung>>

\* setErrors(messages) / setWarnings(messages)
MessageLists == {<<>>, <<"x1">>}

SetErrors(p, messages) ==
  /\ Callable(p)
  /\ feedback' = FeedbackUpdate(feedback, Entry("error", "EffectError", p, messages))
  /\ events' = <<>>
  /\ hiddenAt' = [hiddenAt EXCEPT ![p] = NoSnap]
  /\ UNCHANGED <<lookup, returned, fields, registry, values, initialValues, formModified,
                 inflight, hung>>

SetWarnings(p, messages) ==
  /\ Callable(p)
  /\ feedback' = FeedbackUpdate(feedback, Entry("warning", "EffectWarning", p, messages))
  /\ events' = <<>>
  /\ hiddenAt' = [hiddenAt EXCEPT ![p] = NoSnap]
  /\ UNCHANGED <<lookup, returned, fields, registry, values, initialValues, formModified,
                 inflight, hung>>

\* setValidator(validator)
Descs == {NoKey, Desc(TRUE, TRUE), Desc(TRUE, FALSE)}
Validators ==
  {NoValidator} \cup {ObjValidator(d) : d \in Descs}
  \cup {ArrValidator(<<>>)} \cup {ArrValidator(<<d>>) : d \in Descs}
  \cup {ArrValidator(<<d, e>>) : d \in Descs, e \in Descs}

SetValidator(p, v) ==
  /\ Callable(p)
  /\ fields' = [fields EXCEPT ![p].validator = v]
  /\ events' = <<>>
  /\ hiddenAt' = [hiddenAt EXCEPT ![p] = NoSnap]
  /\ UNCHANGED <<lookup, returned, registry, values, initialValues, formModified, feedback,
                 inflight, hung>>

\* setRequired(required)
SetRequired(p, required) ==
  /\ Callable(p)
  /\ fields' = [fields EXCEPT
       ![p].validator = ValidatorAfterSetRequired(fields[p].validator, required)]
  /\ events' = <<>>
  /\ hiddenAt' = [hiddenAt EXCEPT ![p] = NoSnap]
  /\ UNCHANGED <<lookup, returned, registry, values, initialValues, formModified, feedback,
                 inflight, hung>>

\* setValidating(validating)
SetValidating(p, validating) ==
  /\ Callable(p)
  /\ fields' = [fields EXCEPT ![p].validating = validating]
  /\ events' = <<>>
  /\ hiddenAt' = [hiddenAt EXCEPT ![p] = NoSnap]
  /\ UNCHANGED <<lookup, returned, registry, values, initialValues, formModified,
                 feedback, inflight, hung>>

\* Some other holder of the form removes a path from the values tree.
FormDeleteValuesIn(p) ==
  /\ ~hung
  /\ ExistIn(values, p)
  /\ values' = DeleteIn(values, p)
  /\ events' = <<>>
  /\ UNCHANGED <<lookup, returned, fields, registry, initialValues, formModified, feedback,
                 inflight, hiddenAt, hung>>

-----------------------------------------------------------------------------
(* What a subscriber sees.  form.notify calls its subscribers at once, so a  *)
(* subscriber reads the field and form state as the statements before the    *)
(* notify call have left it.  For each handler: the state seen at each of    *)
(* its notifications, in the order of events.                                *)

View(flds, reg, vals, ivals, fmod, fb) ==
  [fields |-> flds, registry |-> reg, values |-> vals, initialValues |-> ivals,
   formModified |-> fmod, feedback |-> fb]
Now == View(fields, registry, values, initialValues, formModified, feedback)

\* The same view for each notification of a list.
SeenBy(evs, view) == [i \in DOMAIN evs |-> view]

\* setDisplay: setValue notifies before recycledValue is cleared and before
\* display is written.
SetDisplaySeen(p, type) ==
  LET f == fields[p]
      restore == type = "visibility" /\ f.display = "none"
      hide == type = "none"
      written == [Now EXCEPT
        !.fields = [fields EXCEPT ![p].recycledValue =
                      IF hide THEN FieldValue(p) ELSE f.recycledValue],
        !.values = ValuesAfterSetValue(f, values, p,
                      IF restore THEN f.recycledValue ELSE UndefV)]
  IN IF restore \/ hide THEN SeenBy(SetValueEvents(f, p), written) ELSE <<>>

\* onInput: the four change notifications follow all writes of the handler
\* itself and precede validate(), which sets validating.
OnInputSeen(p, args) ==
  LET f == fields[p]
      written == [Now EXCEPT
        !.fields = [fields EXCEPT
                      ![p].inputValue = IF args = <<>> THEN Undef ELSE args[1],
                      ![p].inputValues = args,
                      ![p].modified = TRUE],
        !.formModified = TRUE,
        !.values = SetIn(values, p, ValueGetter(TRUE, values, initialValues, p))]
      started == [written EXCEPT !.fields[p].validating = TRUE]
  IN IF f.void THEN <<>>
     ELSE <<written, written, written, written, started>>

\* onMount: both notifications follow all writes.
OnMountSeen(p) ==
  LET started == [Now EXCEPT !.fields = [fields EXCEPT
                    ![p].mounted = TRUE, ![p].unmounted = FALSE,
                    ![p].validating = TRUE]]
  IN <<started, started>>

\* Variant of onUnmount that clears the value, or deletes the field, before
\* it notifies.
OnUnmountSeenAfterCleanup(p) ==
  LET f == fields[p]
      started == [Now EXCEPT !.fields = [fields EXCEPT
                    ![p].mounted = FALSE, ![p].unmounted = TRUE,
                    ![p].validating = TRUE]]
      exists == ExistIn(values, p)
      clears == exists /\ ~ComputedDisplayLoops(fields, registry, p)
                /\ ClearsOnUnmount(ComputedDisplay(fields, registry, p))
      cleared == [started EXCEPT
                    !.values = IF clears THEN ValuesAfterSetValue(f, values, p, UndefV)
                               ELSE values,
                    !.registry = IF exists THEN registry ELSE registry \ {p}]
  IN <<cleared, cleared>>
     \o (IF clears THEN SeenBy(SetValueEvents(f, p), cleared) ELSE <<>>)

\* onUnmount: validate-start and field-unmount are notified after the flag
\* writes and before the path is looked up; the notifications of setValue()
\* follow the clearing.
OnUnmountSeen(p) ==
  LET f == fields[p]
      started == [Now EXCEPT !.fields = [fields EXCEPT
                    ![p].mounted = FALSE, ![p].unmounted = TRUE,
                    ![p].validating = TRUE]]
      clears == ExistIn(values, p) /\ ~ComputedDisplayLoops(fields, registry, p)
                /\ ClearsOnUnmount(ComputedDisplay(fields, registry, p))
      cleared == [started EXCEPT
                    !.values = ValuesAfterSetValue(f, values, p, UndefV)]
  IN <<started, started>>
     \o (IF clears THEN SeenBy(SetValueEvents(f, p), cleared) ELSE <<>>)

\* reset: setInitialValue notifies before the value is written; setValue and
\* the reset notification follow all writes of the atomic block; validate()
\* then sets validating.
ResetSeen(p, opts) ==
  LET f == fields[p]
      clearInitial == "clearInitialValue" \in opts
      force == "forceClear" \in opts
      ivals == IF clearInitial
               THEN InitialValuesAfterSet(f, initialValues, p, UndefV)
               ELSE initialValues
      cleared == [Now EXCEPT
        !.fields = [fields EXCEPT ![p].modified = FALSE, ![p].visited = FALSE],
        !.feedback = FeedbackClear(feedback, p),
        !.initialValues = ivals]
      written == [cleared EXCEPT
        !.fields = [cleared.fields EXCEPT
                      ![p].inputValue = IF force THEN Undef ELSE f.inputValue,
                      ![p].inputValues = IF force THEN <<>> ELSE f.inputValues],
        !.values = ValuesAfterSetValue(f, values, p,
                                       ResetTarget(force, initialValues, ivals, p))]
      started == [written EXCEPT !.fields[p].validating = TRUE]
  IN (IF clearInitial THEN SeenBy(SetInitialValueEvents(f, p), cleared) ELSE <<>>)
     \o SeenBy(SetValueEvents(f, p), written) \o <<written>>
     \o (IF "validate" \in opts THEN <<started>> ELSE <<>>)

-----------------------------------------------------------------------------
(* Getters and lookup methods called from outside (a view, an effect).       *)

LookupFrame ==
  /\ events' = <<>>
  /\ UNCHANGED <<fields, registry, values, initialValues, formModified,
                 feedback, inflight, returned, hiddenAt>>

\* field.parent
GetParent(p) ==
  /\ Callable(p)
  /\ hung' = ParentLoops(registry, p)
  /\ lookup' = IF ParentLoops(registry, p) THEN lookup
               ELSE Lookup("parent", p, <<>>, 0, ParentOf(registry, p),
                           NoIndex, Undef)
  /\ LookupFrame

\* field.computedDisplay
GetComputedDisplay(p) ==
  /\ Callable(p)
  /\ hung' = ComputedDisplayLoops(fields, registry, p)
  /\ lookup' = IF ComputedDisplayLoops(fields, registry, p) THEN lookup
               ELSE Lookup("computedDisplay", p, <<>>, 0, NoField, NoIndex,
                           ComputedDisplay(fields, registry, p))
  /\ LookupFrame

\* field.array
GetArray(p) ==
  /\ Callable(p)
  /\ lookup' = Lookup("array", p, <<>>, 0,
                      ArrayOf(fields, registry, values, initialValues, p),
                      NoIndex, Undef)
  /\ hung' = hung
  /\ LookupFrame

\* field.index
GetIndex(p) ==
  /\ Callable(p)
  /\ lookup' = Lookup("index", p, <<>>, 0, NoField, IndexOf(p), Undef)
  /\ hung' = hung
  /\ LookupFrame

\* field.getArrayAfterSibling(key, step)
Steps == {1, 2}
Keys == {<<>>, <<"sub">>}

GetArrayAfterSibling(p, key, step) ==
  /\ Callable(p)
  /\ lookup' = Lookup("after", p, key, step,
                      ArraySibling(fields, registry, values, initialValues, p,
                                   IndexShift(IndexOf(p), step), key),
                      NoIndex, Undef)
  /\ hung' = hung
  /\ LookupFrame

\* field.getArrayBeforeSibling(key, step)
GetArrayBeforeSibling(p, key, step) ==
  /\ Callable(p)
  /\ lookup' = Lookup("before", p, key, step,
                      ArraySibling(fields, registry, values, initialValues, p,
                                   IndexShift(IndexOf(p), 0 - step), key),
                      NoIndex, Undef)
  /\ hung' = hung
  /\ LookupFrame

-----------------------------------------------------------------------------
(* Construction.  initialize() clears the flags and takes void, display and  *)
(* validator from the props; the constructor then calls setValue(props.value)*)
(* and setInitialValue(props.initialValue).  The form binds form and path to *)
(* the field and registers it.  The form here holds a section "user", a void *)
(* field, and the field "user.name" inside it, constructed in this order.    *)

NewField(void, validator, display) ==
  [void |-> void, display |-> display, modified |-> FALSE, active |-> FALSE,
   visited |-> FALSE, inputValue |-> Undef, inputValues |-> <<>>,
   recycledValue |-> UndefV, initialized |-> FALSE, mounted |-> FALSE,
   unmounted |-> FALSE, validating |-> FALSE, validator |-> validator]

\* initialize(props) called on a live field: the flags, void, display and
\* validator are written again; inputValue and recycledValue are not touched.
Initialize(p, void, validator, display) ==
  /\ Callable(p)
  /\ fields' = [fields EXCEPT ![p] =
       [NewField(void, validator, display) EXCEPT
          !.inputValue = fields[p].inputValue,
          !.recycledValue = fields[p].recycledValue]]
  /\ events' = <<>>
  /\ hiddenAt' = [hiddenAt EXCEPT ![p] = NoSnap]
  /\ UNCHANGED <<lookup, returned, registry, values, initialValues, formModified,
                 feedback, inflight, hung>>

\* The notifications of the constructor of field record f at path p.
ConstructorEvents(f, p) == SetValueEvents(f, p) \o SetInitialValueEvents(f, p)

\* The form after the constructors of 'user' (given no value) and then of
\* 'user.name' have run.
ConstructedForm(sectionVoids, voids, validators, displays, given) ==
  \E sectionVoid \in sectionVoids, void \in voids, validator \in validators,
     v \in given, iv \in given, display \in displays, sectionDisplay \in displays :
    LET name == NewField(void, validator, display)
        section == NewField(sectionVoid, NoValidator, sectionDisplay)
    IN /\ fields = [q \in AllPaths |-> IF q = NamePath THEN name ELSE section]
       /\ values = ValuesAfterSetValue(name,
                      ValuesAfterSetValue(section, EmptyTree, UserPath, UndefV),
                      NamePath, Sc(v))
       /\ initialValues = InitialValuesAfterSet(name,
                      InitialValuesAfterSet(section, EmptyTree, UserPath, UndefV),
                      NamePath, Sc(iv))
       /\ void => (v = Undef /\ iv = Undef)
       /\ registry = AllPaths
       /\ formModified = FALSE
       /\ feedback = <<>>
       /\ inflight = <<>>
       /\ events = ConstructorEvents(section, UserPath) \o ConstructorEvents(name, NamePath)
       /\ returned = NoReturn
       /\ hiddenAt = [q \in AllPaths |-> NoSnap]
       /\ hung = FALSE
       /\ lookup = NoLookup

\* The same with 'user' a void section.
Constructed(voids, validators, displays, given) ==
  ConstructedForm({TRUE}, voids, validators, displays, given)

\* Value handling of fields without a validator.
Init == Constructed(BOOLEAN, {NoValidator}, {Undef}, Scalars)

Settle == \E i \in 1..MaxInFlight, rs \in SeqsUpTo(Results, MaxResults) : ValidateSettle(i, rs)

Next ==
  \/ \E p \in AllPaths, v \in Scalars : SetValue(p, v)
  \/ \E p \in AllPaths, v \in Scalars : SetInitialValue(p, v)
  \/ \E p \in AllPaths, args \in InputArgs : OnInput(p, args)
  \/ \E p \in AllPaths, opts \in ResetOptions : Reset(p, opts)
  \/ \E p \in AllPaths : FormDeleteValuesIn(p)
  \/ Settle

Spec == Init /\ [][Next]_vars

-----------------------------------------------------------------------------
(* Properties of value handling, checked under Spec.                         *)

JustSetValue(p) ==
  events = <<Notify("ON_FIELD_VALUE_CHANGE", p),
             Notify("ON_FORM_VALUES_CHANGE", FormPayload)>>

JustReset(p) ==
  \E i \in DOMAIN events : events[i] = Notify("ON_FIELD_RESET", p)

\* C1: right after onInput(v) on a non-void field, the value getter returns
\* v, and the field and the form are modified.
C1_OnInputSetsValue ==
  [][\A p \in AllPaths, args \in InputArgs :
       (OnInput(p, args) /\ ~fields[p].void)
         => /\ FieldValue(p)' = Sc(IF args = <<>> THEN Undef ELSE args[1])
            /\ fields'[p].modified
            /\ formModified']_vars

\* C2 as stated: right after setValue(v), value is v on a non-void field,
\* and the values tree is unchanged on a void one.
C2_SetValueThenValueIsV ==
  [][\A p \in AllPaths, v \in Scalars :
       SetValue(p, v)
         => IF fields[p].void THEN values' = values
            ELSE FieldValue(p)' = Sc(v)]_vars

\* C2 amended: right after setValue(v) the values tree is unchanged on a
\* void field; on a non-void field the stored value is v, and the value
\* getter returns v if the field is modified or v is neither undefined nor
\* null, and the initialValue otherwise.
C2_SetValueStoresV ==
  [][\A p \in AllPaths, v \in Scalars :
       SetValue(p, v)
         => IF fields[p].void THEN values' = values
            ELSE /\ GetIn(values', p) = Sc(v)
                 /\ FieldValue(p)' =
                      IF fields[p].modified \/ isValid(Sc(v)) THEN Sc(v)
                      ELSE FieldInitialValue(p)']_vars

\* setValue(undefined or null) has just run on an unmodified non-void field
\* whose initialValue is defined.
C2_Witness ==
  /\ JustSetValue(NamePath)
  /\ ~fields[NamePath].void
  /\ ~fields[NamePath].modified
  /\ ~isValid(GetIn(values, NamePath))
  /\ isValid(FieldInitialValue(NamePath))

ResetPost(p, opts, void) ==
  /\ ~fields'[p].modified
  /\ ~void => FieldValue(p)' = FieldInitialValue(p)'
  /\ "forceClear" \in opts =>
       /\ ~void => GetIn(values', p) = UndefV
       /\ fields'[p].inputValue = Undef
       /\ fields'[p].inputValues = <<>>
  /\ ("forceClear" \notin opts /\ ~void) =>
       GetIn(values', p) = FieldInitialValue(p)'
  /\ void => (values' = values /\ initialValues' = initialValues)

\* C4 as stated: when the synchronous part of reset(options) has finished,
\* on every field (void ones included) modified is false, value is the
\* current initialValue, forceClear leaves the stored value cleared and the
\* input buffers empty, and no forceClear leaves the stored value equal to
\* initialValue.
C4_ResetEveryField ==
  [][\A p \in AllPaths, opts \in ResetOptions :
       Reset(p, opts) => ResetPost(p, opts, FALSE)]_vars

\* C4 amended: the same for every non-void field; on a void field reset
\* clears modified (and with forceClear the input buffers) and leaves both
\* value trees unchanged.
C4_ResetNonVoid ==
  [][\A p \in AllPaths, opts \in ResetOptions :
       Reset(p, opts) => ResetPost(p, opts, fields[p].void)]_vars

\* reset has just run on a non-void field that had been modified: it is
\* unmodified again and shows a defined initialValue.
C4_Witness ==
  /\ JustReset(NamePath)
  /\ ~fields[NamePath].void
  /\ formModified
  /\ isValid(FieldValue(NamePath))
  /\ fields[NamePath].inputValues = <<>>

-----------------------------------------------------------------------------
(* Hiding and showing: setDisplay with the calls that change what it reads.  *)

NextDisplay ==
  \/ \E p \in AllPaths, t \in DisplayTypes : SetDisplay(p, t)
  \/ \E p \in AllPaths, v \in Scalars : SetValue(p, v)
  \/ \E p \in AllPaths, args \in InputArgs : OnInput(p, args)
  \/ Settle

SpecDisplay == Init /\ [][NextDisplay]_vars



-----------------------------------------------------------------------------
(* The display round trip: 'user' may be a field with a value of its own,    *)
(* and any field may write values and initial values between the two calls.  *)

InitRoundTrip == ConstructedForm(BOOLEAN, {FALSE}, {NoValidator}, {Undef}, {Undef, "Al"})

\* The initial values given to setInitialValue: undefined, and an object
\* with a 'name' key.
NameObject == [r \in {<<"name">>} |-> "Bob"]
InitialGiven == {UndefV, NameObject}

\* One input at a time: onInput is called when no validation is waiting.
NextRoundTrip ==
  \/ \E p \in AllPaths, t \in DisplayTypes : SetDisplay(p, t)
  \/ \E p \in AllPaths : SetValue(p, "Bob")
  \/ \E p \in AllPaths, initialValue \in InitialGiven : SetInitialValueTo(p, initialValue)
  \/ inflight = <<>> /\ OnInput(NamePath, <<"Bob">>)
  \/ Settle

SpecRoundTrip == InitRoundTrip /\ [][NextRoundTrip]_vars

\* C3 as stated: for every field, setDisplay('none') from another display
\* and then setDisplay('visibility'), with no other call on the field in
\* between, leaves value as it was when setDisplay('none') was called, and
\* recycledValue cleared.
C3_RoundTripEveryField ==
  [][\A p \in AllPaths :
       (SetDisplay(p, "visibility") /\ hiddenAt[p].set)
         => /\ FieldValue(p)' = hiddenAt[p].v
            /\ fields'[p].recycledValue = NullV]_vars

\* C3 amended: for every field, setDisplay('none') from another display and
\* then setDisplay('visibility'), with no other call on the field in
\* between, leaves recycledValue cleared.  On a non-void field the stored
\* value is then the value the field had when setDisplay('none') was called,
\* and the value getter returns it if the field is modified or it is
\* neither undefined nor null, and the current initialValue otherwise; on a
\* void field setDisplay('visibility') leaves the values tree as it is.  On
\* every field, if the form's values and initial values are, at the second
\* call, as the first call left them, value is as it was when
\* setDisplay('none') was called.
C3_RoundTripStored ==
  [][\A p \in AllPaths :
       (SetDisplay(p, "visibility") /\ hiddenAt[p].set)
         => /\ fields'[p].recycledValue = NullV
            /\ IF fields[p].void THEN values' = values
               ELSE /\ GetIn(values', p) = hiddenAt[p].v
                    /\ FieldValue(p)' =
                         IF fields[p].modified \/ isValid(hiddenAt[p].v)
                         THEN hiddenAt[p].v
                         ELSE FieldInitialValue(p)'
            /\ (values = hiddenAt[p].values
                  /\ initialValues = hiddenAt[p].initialValues)
                 => FieldValue(p)' = hiddenAt[p].v]_vars

\* An unmodified non-void field has just been shown again from 'none': its
\* stored value is undefined again, and it shows the initial value that
\* the field above it has written.
C3_Witness ==
  /\ JustSetValue(NamePath)
  /\ ~fields[NamePath].void
  /\ ~fields[NamePath].modified
  /\ fields[NamePath].display = "visibility"
  /\ fields[NamePath].recycledValue = NullV
  /\ GetIn(values, NamePath) = UndefV
  /\ ~fields[UserPath].void
  /\ FieldValue(NamePath) = Sc("Bob")

(* Unmounting: fields constructed with any display, and onUnmount with the   *)
(* calls that change what it reads.                                          *)

InitUnmount == Constructed(BOOLEAN, {NoValidator}, {Undef} \cup DisplayTypes, Scalars)

NextUnmount ==
  \/ \E p \in AllPaths : OnUnmount(p)
  \/ \E p \in AllPaths, args \in InputArgs : OnInput(p, args)
  \/ \E p \in AllPaths : FormDeleteValuesIn(p)
  \/ Settle

SpecUnmount == InitUnmount /\ [][NextUnmount]_vars

UnmountReturns(p) == OnUnmount(p) /\ ~hung'

HiddenAtUnmount(p) ==
  /\ ExistIn(values, p)
  /\ ~ComputedDisplayLoops(fields, registry, p)
  /\ ComputedDisplay(fields, registry, p) = "none"

\* C6 as stated: after onUnmount the registry has no entry for a path that
\* was not in the values tree; otherwise, if computedDisplay is 'none', the
\* value getter returns the empty marker (undefined; null is let pass as
\* empty too), for every field.
C6_UnmountEveryField ==
  [][\A p \in AllPaths :
       UnmountReturns(p)
         => /\ ~ExistIn(values, p) => p \notin registry'
            /\ HiddenAtUnmount(p) => ~isValid(FieldValue(p)')]_vars

\* C6 amended: after onUnmount the registry has no entry for a path that was
\* not in the values tree; otherwise, if computedDisplay is 'none', a void
\* field leaves the values tree unchanged, and a non-void field's stored
\* value is undefined and its value getter returns undefined if the field
\* is modified and its initialValue if it is not.
C6_UnmountClearsStored ==
  [][\A p \in AllPaths :
       UnmountReturns(p)
         => /\ ~ExistIn(values, p) => p \notin registry'
            /\ HiddenAtUnmount(p) =>
                 IF fields[p].void THEN values' = values
                 ELSE /\ GetIn(values', p) = UndefV
                      /\ FieldValue(p)' =
                           IF fields[p].modified THEN UndefV
                           ELSE FieldInitialValue(p)']_vars

\* onUnmount has just cleared the value of an unmodified non-void field that
\* inherits display 'none' and has a defined initialValue.
C6_Witness ==
  /\ \E i \in DOMAIN events : events[i] = Notify("ON_FIELD_UNMOUNT", NamePath)
  /\ events[Len(events)] = Notify("ON_FORM_VALUES_CHANGE", FormPayload)
  /\ ~hung
  /\ fields[NamePath].display = Undef
  /\ fields[UserPath].display = "none"
  /\ ~fields[NamePath].modified
  /\ isValid(FieldInitialValue(NamePath))
  /\ GetIn(values, NamePath) = UndefV

(* A void field inside a form whose trees hold values: every call on the     *)
(* void field, and writes of the non-void field beside it.                   *)

VoidPaths == {q \in AllPaths : fields[q].void}

InitVoid == Constructed({FALSE}, {NoValidator}, {Undef}, Scalars)

NextVoid ==
  \/ \E p \in VoidPaths, v \in Scalars : SetValue(p, v)
  \/ \E p \in VoidPaths, v \in Scalars : SetInitialValue(p, v)
  \/ \E p \in VoidPaths, args \in InputArgs : OnInput(p, args)
  \/ \E p \in VoidPaths, t \in DisplayTypes : SetDisplay(p, t)
  \/ \E p \in VoidPaths, opts \in ResetOptions : Reset(p, opts)
  \/ \E p \in VoidPaths : OnMount(p)
  \/ \E p \in VoidPaths : OnUnmount(p)
  \/ \E p \in VoidPaths : OnFocus(p)
  \/ \E p \in VoidPaths : OnBlur(p)
  \/ Settle

SpecVoid == InitVoid /\ [][NextVoid]_vars

AnyCallOn(p) ==
  \/ \E v \in Scalars : SetValue(p, v)
  \/ \E v \in Scalars : SetInitialValue(p, v)
  \/ \E args \in InputArgs : OnInput(p, args)
  \/ \E t \in DisplayTypes : SetDisplay(p, t)
  \/ \E opts \in ResetOptions : Reset(p, opts)
  \/ OnMount(p) \/ OnUnmount(p) \/ OnFocus(p) \/ OnBlur(p)

SilentCallOn(p) ==
  \/ \E v \in Scalars : SetValue(p, v)
  \/ \E v \in Scalars : SetInitialValue(p, v)
  \/ \E args \in InputArgs : OnInput(p, args)

\* C10: no call on a void field changes the values tree or the
\* initialValues tree, and setValue, setInitialValue and onInput on it notify
\* nothing and leave the modified flags and the input buffers as they are.
C10_VoidFieldFrame ==
  [][\A p \in AllPaths :
       fields[p].void =>
         /\ AnyCallOn(p) => (values' = values /\ initialValues' = initialValues)
         /\ SilentCallOn(p) =>
              /\ events' = <<>>
              /\ fields'[p].modified = fields[p].modified
              /\ formModified' = formModified
              /\ fields'[p].inputValue = fields[p].inputValue
              /\ fields'[p].inputValues = fields[p].inputValues]_vars

\* A void field that has been mounted, hidden, shown again and focused,
\* over a values tree that holds a defined value below it.
C10_Witness ==
  /\ fields[UserPath].void
  /\ fields[UserPath].mounted
  /\ fields[UserPath].visited
  /\ fields[UserPath].display = "visibility"
  /\ fields[UserPath].recycledValue = NullV
  /\ isValid(GetIn(values, NamePath))


-----------------------------------------------------------------------------
(* Required: setRequired and setValidator over every description shape.      *)

InitRequired == Constructed({FALSE}, Validators, {Undef}, {Undef})

NextRequired ==
  \/ \E p \in AllPaths, required \in BOOLEAN : SetRequired(p, required)
  \/ \E p \in AllPaths, v \in Validators : SetValidator(p, v)

SpecRequired == InitRequired /\ [][NextRequired]_vars

\* C5: on an object-shaped or array-shaped description, the required getter
\* returns true after setRequired(true) and false after setRequired(false).
\* (setRequired(false) leaves no rule of the description with required true
\* unless it adds one.)
C5_SetRequiredThenRequired ==
  [][\A p \in AllPaths, required \in BOOLEAN :
       (SetRequired(p, required)
          /\ (isObj(fields[p].validator) \/ isArr(fields[p].validator)))
         => Required(fields'[p].validator) = required]_vars

-----------------------------------------------------------------------------
(* Validation of the field "user.name", which has rules: validate() calls    *)
(* that overlap, and the other writers of its feedback.                      *)

InitValidate == Constructed({FALSE}, {ObjValidator(Desc(TRUE, TRUE))}, {Undef}, {Undef})

NextValidate ==
  \/ Validate(NamePath)
  \/ Settle
  \/ \E i \in 1..MaxInFlight : ValidateReject(i)
  \/ \E ms \in MessageLists : SetErrors(NamePath, ms)
  \/ Reset(NamePath, {})
  \/ \E validating \in BOOLEAN : SetValidating(NamePath, validating)

SpecValidate == InitValidate /\ [][NextValidate]_vars

JustCompleted(p) ==
  events = <<Notify("ON_FIELD_VALIDATE_END", p)>> /\ returned.path = p

\* An error entry at or under p other than p's own ValidateError entry.
OtherErrorEntry(p) ==
  \E i \in DOMAIN feedback :
    /\ feedback[i].type = "error"
    /\ IsPrefix(p, feedback[i].path)
    /\ ~(feedback[i].path = p /\ feedback[i].code = "ValidateError")

\* C7 as stated: when validate() has completed with a non-empty errors list,
\* find({path, type: 'error'}) returns exactly that list, whatever was
\* written to the store before.
C7_FindReturnsErrors ==
  \A p \in AllPaths :
    (JustCompleted(p) /\ returned.errors # <<>>)
      => FieldErrors(p) = returned.errors

\* C7 amended: when validate() has completed with a non-empty errors list,
\* the ValidateError entry of the path holds exactly that list, and
\* find({path, type: 'error'}) returns exactly that list if the store holds
\* no other error entry at or under the path (none written by setErrors, none
\* of a field below).
C7_ValidateErrorEntry ==
  \A p \in AllPaths :
    (JustCompleted(p) /\ returned.errors # <<>>)
      => /\ FeedbackAt(feedback, p, "ValidateError") = returned.errors
         /\ ~OtherErrorEntry(p) => FieldErrors(p) = returned.errors

\* validate() has just completed with an error other than the one an
\* earlier run left in the store, and no other error entry is there.
C7_Witness ==
  /\ JustCompleted(NamePath)
  /\ returned.errors = <<"e2">>
  /\ returned.overlapped
  /\ ~OtherErrorEntry(NamePath)
  /\ FieldErrors(NamePath) = <<"e2">>

\* C8: whenever the engine call of a waiting validate() settles, with a list
\* or by rejecting, that call sets validating to false and notifies
\* validate-end.
C8_ValidateAlwaysEnds ==
  [][\A i \in 1..MaxInFlight :
       (ValidateReject(i) \/ \E rs \in SeqsUpTo(Results, MaxResults) : ValidateSettle(i, rs))
         => /\ ~fields'[inflight[i].path].validating
            /\ \E k \in DOMAIN events' :
                 events'[k] = Notify("ON_FIELD_VALIDATE_END", inflight[i].path)]_vars

\* C9: once two overlapping validate() calls on a field have both completed,
\* the ValidateError entry of the path holds the errors of the call that
\* completed last (no entry when that list is empty).
C9_LastCompletedWins ==
  \A p \in AllPaths :
    (/\ JustCompleted(p)
     /\ returned.overlapped
     /\ ~\E i \in DOMAIN inflight : inflight[i].path = p)
      => FeedbackAt(feedback, p, "ValidateError") = returned.errors

-----------------------------------------------------------------------------
(* Addressing: a form that holds the list "items", whose elements have a     *)
(* member "sub" that is a list or an object.  A field has been constructed   *)
(* for each path, each with the value the tree holds at its path; the form   *)
(* has registered any of them.  The getters and lookup methods are called on *)
(* the fields.                                                               *)

ItemsPath == <<"items">>
Item1Path == <<"items", "1">>
Item2Path == <<"items", "2">>
Sub1Path == <<"items", "1", "sub">>
Sub2Path == <<"items", "2", "sub">>
Sub1ElemPath == <<"items", "1", "sub", "2">>
ItemPaths == {ItemsPath, Item1Path, Item2Path, Sub1Path, Sub2Path, Sub1ElemPath}

\* The order in which the fields are constructed.
ItemOrder == <<ItemsPath, Item1Path, Item2Path, Sub1Path, Sub2Path, Sub1ElemPath>>

\* The initialValues tree after the first n constructors, each of which
\* calls setInitialValue(undefined).
RECURSIVE ItemInitialValues(_, _)
ItemInitialValues(flds, n) ==
  IF n = 0 THEN [q \in ItemPaths |-> Absent]
  ELSE InitialValuesAfterSet(flds[ItemOrder[n]], ItemInitialValues(flds, n - 1),
                             ItemOrder[n], UndefV)

ItemTree(kind, subKind) ==
  [q \in ItemPaths |->
     IF q = ItemsPath THEN kind
     ELSE IF q = Sub1Path THEN subKind
     ELSE IF q \in {Item1Path, Item2Path} THEN Obj
     ELSE "Al"]

InitLookup ==
  \E reg \in SUBSET ItemPaths, kind \in Containers, subKind \in Containers,
     top \in {Undef, "none"}, mid \in {Undef, "hidden"} :
    /\ fields = [q \in ItemPaths |->
                   NewField(FALSE, NoValidator,
                            IF q = ItemsPath THEN top
                            ELSE IF q = Item1Path THEN mid ELSE Undef)]
    /\ registry = reg
    /\ values = ItemTree(kind, subKind)
    /\ initialValues = ItemInitialValues(fields, Len(ItemOrder))
    /\ formModified = FALSE
    /\ feedback = <<>>
    /\ inflight = <<>>
    /\ events = Flatten([n \in DOMAIN ItemOrder |->
                           ConstructorEvents(fields[ItemOrder[n]], ItemOrder[n])])
    /\ returned = NoReturn
    /\ hiddenAt = [q \in ItemPaths |-> NoSnap]
    /\ hung = FALSE
    /\ lookup = NoLookup

NextLookup ==
  \/ \E p \in ItemPaths : GetParent(p)
  \/ \E p \in ItemPaths : GetComputedDisplay(p)
  \/ \E p \in ItemPaths : GetArray(p)
  \/ \E p \in ItemPaths : GetIndex(p)
  \/ \E p \in ItemPaths, key \in Keys, step \in Steps : GetArrayAfterSibling(p, key, step)
  \/ \E p \in ItemPaths, key \in Keys, step \in Steps : GetArrayBeforeSibling(p, key, step)

SpecLookup == InitLookup /\ [][NextLookup]_vars

\* The registered fields above p whose value is an array, and the nearest.
ArrayAncestors(p) ==
  {q \in registry : IsProperPrefix(q, p) /\ values[q] = Arr}
Nearest(S) == CHOOSE q \in S : \A r \in S : Len(r) <= Len(q)

\* The registered field at path q, undefined when there is none.
FieldAt(q) == IF q \in registry THEN q ELSE NoField

\* C11: for a field p below a registered field A whose value is an array, A
\* the nearest such, array returns A, index returns the number of the path
\* segment of p that directly follows A's path, and
\* getArrayAfterSibling(key, step) returns the registered field at
\* A.path + (that number + step) + key, or undefined when there is none.
C11_ArrayAddressing ==
  [][\A p \in ItemPaths :
       ArrayAncestors(p) # {} =>
         LET A == Nearest(ArrayAncestors(p))
             position == NumOfSeg(p[Len(A) + 1])
         IN /\ GetArray(p) => lookup'.field = A
            /\ GetIndex(p) => lookup'.index = position
            /\ \A key \in Keys, step \in Steps :
                 GetArrayAfterSibling(p, key, step)
                   => lookup'.field =
                        FieldAt(A \o <<SegOfNum(position + step)>> \o key)]_vars

\* The registered fields above p, the nearest being the expected parent.
Ancestors(p) == {q \in registry : IsProperPrefix(q, p)}
ExpectedParent(p) ==
  IF Ancestors(p) = {} THEN NoField ELSE Nearest(Ancestors(p))

\* C12: the parent getter returns on every field: it gives the nearest
\* registered ancestor, never the field itself, and undefined when no
\* ancestor is registered (a top-level field included).
C12_ParentTerminates ==
  [][\A p \in ItemPaths :
       GetParent(p)
         => /\ ~hung'
            /\ lookup'.op = "parent" /\ lookup'.path = p
            /\ lookup'.field = ExpectedParent(p)
            /\ lookup'.field # p]_vars

\* Own display if set, else that of the nearest registered ancestor,
\* transitively; undefined when no field of the chain sets one.
RECURSIVE InheritedDisplay(_)
InheritedDisplay(p) ==
  IF fields[p].display # Undef THEN fields[p].display
  ELSE IF ExpectedParent(p) = NoField THEN Undef
  ELSE InheritedDisplay(ExpectedParent(p))

\* C13: whenever computedDisplay returns, it is the field's own display if
\* set, and otherwise the computedDisplay of its parent, transitively along
\* the registered ancestors.
C13_ComputedDisplayInherits ==
  [][\A p \in ItemPaths :
       (GetComputedDisplay(p) /\ ~hung')
         => lookup'.display = InheritedDisplay(p)]_vars

-----------------------------------------------------------------------------
(* The life of one non-void field: shown and hidden, mounted and unmounted,  *)
(* typed into and reset.                                                     *)

InitLifecycle == Constructed({FALSE}, {NoValidator}, {Undef}, {Undef, "Al"})

NextLifecycle ==
  \/ \E t \in DisplayTypes : SetDisplay(NamePath, t)
  \/ \E args \in InputArgs : OnInput(NamePath, args)
  \/ OnMount(NamePath)
  \/ OnUnmount(NamePath)
  \/ \E opts \in ResetOptions : Reset(NamePath, opts)
  \/ \E display \in {Undef} \cup DisplayTypes :
       Initialize(NamePath, FALSE, NoValidator, display)
  \/ Settle

SpecLifecycle == InitLifecycle /\ [][NextLifecycle]_vars

AllSeeFinalState(seen) == \A i \in DOMAIN seen : seen[i] = Now'

\* C14: every notification emitted by setDisplay, onInput, onMount,
\* onUnmount or reset sees the field and form state that the handler leaves
\* when it returns.
C14_WritesBeforeNotifications ==
  [][\A p \in AllPaths :
       /\ \A t \in DisplayTypes :
            SetDisplay(p, t) => AllSeeFinalState(SetDisplaySeen(p, t))
       /\ \A args \in InputArgs :
            OnInput(p, args) => AllSeeFinalState(OnInputSeen(p, args))
       /\ OnMount(p) => AllSeeFinalState(OnMountSeen(p))
       /\ (OnUnmount(p) /\ ~hung') => AllSeeFinalState(OnUnmountSeen(p))
       /\ \A opts \in ResetOptions :
            Reset(p, opts) => AllSeeFinalState(ResetSeen(p, opts))]_vars

-----------------------------------------------------------------------------
(* Order of the steps of onUnmount, checked under SpecUnmount.               *)

\* C16: onUnmount writes mounted=false and unmounted=true, then starts
\* validate (validate-start is notified while the values tree is as it was),
\* then notifies field-unmount, and only then looks the path up and clears
\* the value or deletes the field: when field-unmount is notified the
\* registry is as it was before the call (a registered field is still
\* registered) and the values tree is unchanged, and any further
\* notification is one of the clearing setValue().
C16_UnmountNotifiesBeforeCleanup ==
  [][\A p \in AllPaths :
       OnUnmount(p) =>
         LET seen == OnUnmountSeen(p)
         IN /\ Len(events') >= 2 /\ Len(seen) = Len(events')
            /\ events'[1] = Notify("ON_FIELD_VALIDATE_START", p)
            /\ events'[2] = Notify("ON_FIELD_UNMOUNT", p)
            /\ \A i \in {1, 2} :
                 /\ ~seen[i].fields[p].mounted
                 /\ seen[i].fields[p].unmounted
                 /\ seen[i].fields[p].validating
                 /\ seen[i].values = values
                 /\ seen[i].registry = registry
                 /\ p \in registry => p \in seen[i].registry
            /\ \A i \in DOMAIN events' :
                 i > 2 => /\ events'[i] \in {Notify("ON_FIELD_VALUE_CHANGE", p),
                                            Notify("ON_FORM_VALUES_CHANGE", FormPayload)}
                          /\ seen[i].values = values'
                          /\ seen[i].registry = registry']_vars

\* onUnmount has just deleted a field whose path was gone from the values
\* tree: field-unmount was notified, and the registry has lost the field.
C16_Witness ==
  /\ events = <<Notify("ON_FIELD_VALIDATE_START", NamePath),
                Notify("ON_FIELD_UNMOUNT", NamePath)>>
  /\ fields[NamePath].unmounted
  /\ NamePath \notin registry
  /\ ~ExistIn(values, NamePath)

-----------------------------------------------------------------------------
(* Partition of the results: validate() calls on "user.name", one after the *)
(* other, answered with lists that mix the result types.                     *)

MixedResults == {Result("error", "e1"), Result("warning", "w1"),
                 Result("success", "s1")}

SettleMixed ==
  \E rs \in SeqsUpTo(MixedResults, MaxMixed) : ValidateSettle(1, rs)

\* One call at a time: the next validate() starts when the last has returned.
NextPartition ==
  \/ inflight = <<>> /\ Validate(NamePath)
  \/ SettleMixed

SpecPartition == InitValidate /\ [][NextPartition]_vars

\* The messages of the results that are not errors, in result order.
NotErrors(results) ==
  LET rest == SelectSeq(results, LAMBDA r : r.type # "error")
  IN [k \in DOMAIN rest |-> rest[k].message]

IsIn(x, list) == \E k \in DOMAIN list : list[k] = x

\* C15: for every result list of the engine, validate() returns an empty
\* successes list and a warnings list that holds the messages of the
\* 'warning' and 'success' results in result order; it writes no feedback
\* entry with code ValidateSuccess; a success message is visible through the
\* warnings getter and the successes getter returns nothing.
C15_SuccessesGoToWarnings ==
  [][\A i \in 1..MaxInFlight, rs \in SeqsUpTo(MixedResults, MaxMixed) :
       ValidateSettle(i, rs) =>
         LET p == inflight[i].path
         IN /\ returned'.successes = <<>>
            /\ returned'.warnings = NotErrors(rs)
            /\ returned'.errors \o returned'.warnings
                 = MessagesOf(rs, {"error"}) \o NotErrors(rs)
            /\ \A k \in DOMAIN feedback' : feedback'[k].code # "ValidateSuccess"
            /\ \A k \in DOMAIN rs :
                 rs[k].type = "success" => IsIn(rs[k].message, FeedbackFind(feedback', p, "warning"))
            /\ FeedbackFind(feedback', p, "success") = <<>>]_vars

\* validate() has just completed on a success result followed by a warning:
\* both messages are returned as warnings, in that order, and the warnings
\* getter shows them.
C15_Witness ==
  /\ JustCompleted(NamePath)
  /\ returned.warnings = <<"s1", "w1">>
  /\ returned.successes = <<>>
  /\ FieldWarnings(NamePath) = <<"s1", "w1">>
  /\ FieldSuccesses(NamePath) = <<>>

-----------------------------------------------------------------------------
(* Overlapping and repeated validate() calls.                                *)

InFlightOn(p) == \E i \in DOMAIN inflight : inflight[i].path = p

\* C17: in every reachable state, validating is true on a field exactly when
\* a validate() call on that field has started and not yet completed.
\* (Checked under Spec, where no engine call rejects.)
C17_ValidatingIffInFlight ==
  \A p \in AllPaths : fields[p].validating <=> InFlightOn(p)

\* C18: when a validate() call that overlapped no other call completes with
\* no errors and no call on the field is in flight, the store holds no
\* messages under ValidateError for the path; likewise for warnings and
\* ValidateWarning.  (Checked under SpecValidate.)
C18_NoStaleFeedback ==
  \A p \in AllPaths :
    (JustCompleted(p) /\ ~returned.overlapped /\ ~InFlightOn(p))
      => /\ returned.errors = <<>> => FeedbackAt(feedback, p, "ValidateError") = <<>>
         /\ returned.warnings = <<>> => FeedbackAt(feedback, p, "ValidateWarning") = <<>>

\* reset() without the validate option was the last step on the field.
ResetJustRan(p) ==
  /\ JustReset(p)
  /\ \A i \in DOMAIN events : events[i] # Notify("ON_FIELD_VALIDATE_START", p)

\* C19: a validate() call that was in flight when reset() ran writes no
\* feedback for the field when it settles: if it settles right after the
\* reset, the store still holds no entry at the field's path.  (Checked
\* under SpecValidate.)
C19_ResetWinsOverInFlight ==
  [][\A i \in 1..MaxInFlight, rs \in SeqsUpTo(Results, MaxResults) :
       (ValidateSettle(i, rs) /\ ResetJustRan(inflight[i].path))
         => \A k \in DOMAIN feedback' : feedback'[k].path # inflight[i].path]_vars

\* C20: a second setDisplay('none') right after the first leaves
\* recycledValue, the stored value and display as the first call left them.
\* (Checked under SpecDisplay.)
C20_HideTwiceIsHideOnce ==
  [][\A p \in AllPaths :
       (SetDisplay(p, "none") /\ hiddenAt[p].set)
         => /\ fields'[p].recycledValue = fields[p].recycledValue
            /\ GetIn(values', p) = GetIn(values, p)
            /\ fields'[p].display = fields[p].display]_vars

====
